---- MODULE Spec2Model ----
(***************************************************************************)
(* Model of the Finago synchronisation core: the orchestrator              *)
(* (finago_sync_cli.main), the entity extractors (endpoint/finago_*.py),   *)
(* the login of the auth service (finago_auth.py) and the upsert store     *)
(* (finago_db.py) on a sqlite3 connection with Python's implicit           *)
(* transactions.                                                           *)
(***************************************************************************)
EXTENDS Integers, Sequences, FiniteSets, Bags, TLC

(***************************************************************************)
(* Bounds of the model.                                                    *)
(***************************************************************************)
\* largest primary key a response carries
MaxKey == 2
\* largest number of items in one response
MaxBatch == 2

(***************************************************************************)
(* Python values.  Wire values are strings (xmltodict yields str, None or  *)
(* a dict for an element with children); None and a dict are the two       *)
(* tokens below, which no wire text equals.                                *)
(***************************************************************************)
None == "None"
Nested == "{dict}"

\* Python truthiness of a wire value or of an int: None, "" and 0 are falsy
Falsy(x) == x \in {None, ""}

\* a or b
Or(a, b) == IF Falsy(a) THEN b ELSE a

DecStr == <<"0", "1", "2", "3", "4", "5", "6", "7", "8", "9">>

\* str(i) of a small natural
Str(i) == DecStr[i + 1]

\* int(s) succeeds on a decimal string; it raises ValueError on other text,
\* TypeError on None or a dict
IsDecimal(s) == \E i \in 0..9 : DecStr[i + 1] = s

PyInt(s) == CHOOSE i \in 0..9 : DecStr[i + 1] = s

(***************************************************************************)
(* The six entities, in the order main() syncs them.                       *)
(***************************************************************************)
EntityOrder == <<"companies", "persons", "invoices", "products", "transactions", "accounts">>

Entities == {EntityOrder[i] : i \in 1..Len(EntityOrder)}

IndexOf(e) == CHOOSE i \in 1..Len(EntityOrder) : EntityOrder[i] = e

\* the entities main() syncs after e
Later(e) == {EntityOrder[i] : i \in (IndexOf(e) + 1)..Len(EntityOrder)}

\* (variant of Guarded: the transactions sync not wrapped)
Guarded_without_transactions == {"invoices", "products", "accounts"}

\* the entity syncs main() wraps in try/except Exception
Guarded == {"invoices", "products", "transactions", "accounts"}

\* tables whose primary key is TEXT: a NULL key is stored, and never conflicts
TextKeyed == {"transactions"}

\* tables written with INSERT OR REPLACE (the others use ON CONFLICT DO UPDATE)
ReplaceTables == {"products", "transactions", "accounts"}

(***************************************************************************)
(* Wire Normalizer and the field conversions the extractors share.  A raw  *)
(* item is a record of wire values; a key the response does not carry      *)
(* reads as None (dict.get).                                               *)
(***************************************************************************)
\* the values xmltodict gives for an element that occurs more than once: a
\* list, written here as a token with the elements it holds
Lists == ("[1, 2]" :> <<"1", "2">>) @@ ("[a, b]" :> <<"a", "b">>)

\* isinstance(val, list)
IsList(val) == val \in DOMAIN Lists

\* finago_utils.v on a raw item: d.get(key), and the first element of a list
V(d, key) ==
    IF key \notin DOMAIN d THEN None
    ELSE IF IsList(d[key]) THEN Lists[d[key]][1]
    ELSE d[key]

(***************************************************************************)
(* The date filter of a request.  A date text is the sequence of its       *)
(* parts, "T" being a part of its own: "2024-01-01T08:00:00" is            *)
(* <<"2024-01-01", "T", "08:00:00">>.                                      *)
(***************************************************************************)
\* "T" in changed_after
HasT(ca) == \E i \in 1..Len(ca) : ca[i] = "T"

Midnight == <<"T", "00:00:00">>

\* ds = changed_after if "T" in changed_after else f"{changed_after}T00:00:00"
ds(ca) == IF HasT(ca) THEN ca ELSE ca \o Midnight

\* changed_after.split("T")[0]
split_T_first(ca) ==
    IF HasT(ca)
    THEN SubSeq(ca, 1, (CHOOSE i \in 1..Len(ca) : ca[i] = "T" /\ \A j \in 1..(i - 1) : ca[j] # "T") - 1)
    ELSE ca

\* ds of download_transactions: changed_after.split("T")[0] + "T00:00:00"
ds_transactions(ca) == split_T_first(ca) \o Midnight

\* the date filter the request of entity e carries; GetAccountList has none
date_filter(e, ca) ==
    CASE e \in {"companies", "persons", "invoices", "products"} -> ds(ca)
      [] e = "transactions" -> ds_transactions(ca)
      [] e = "accounts" -> <<>>

\* _to_int: None for a missing or unparsable value
to_int_ok(val) == ~(val \in {None, ""}) /\ IsDecimal(val)

\* _to_int(val) or 0, as the extractors use it for a key
to_int_or_0(val) == IF to_int_ok(val) THEN PyInt(val) ELSE 0

\* _to_float: 0.0 for a missing or unparsable value
to_float(val) == IF val \in {None, ""} THEN 0 ELSE IF IsDecimal(val) THEN PyInt(val) ELSE 0

\* str.lower on the texts of the model
Lower(s) ==
    CASE s = "True" -> "true"
      [] s = "TRUE" -> "true"
      [] s = "YES" -> "yes"
      [] s = "Primary" -> "primary"
      [] s = "MOBILE" -> "mobile"
      [] s = "Customer" -> "customer"
      [] s = "PROJECT" -> "project"
      [] OTHER -> s

\* str.strip on the texts of the model
Strip(s) == IF s \in {" ", "  "} THEN "" ELSE s

\* _to_bool: 1 for "true"/"1"/"yes" in any case, else 0 (a dict gives 0)
to_bool(val) ==
    IF val \in {None, ""} THEN 0
    ELSE IF val = Nested THEN 0
    ELSE IF Lower(val) \in {"true", "1", "yes"} THEN 1 ELSE 0

\* int(a or b or 0): raises on text that is no number (no try/except around it)
int_or_0_raises(a, b) == LET x == Or(a, b) IN ~Falsy(x) /\ ~IsDecimal(x)

int_or_0(a, b) == LET x == Or(a, b) IN IF Falsy(x) \/ ~IsDecimal(x) THEN 0 ELSE PyInt(x)

(***************************************************************************)
(* Entity extractors: raw items of a response to canonical records.  Each  *)
(* gives [raised, records]: raised when building a record raises.          *)
(***************************************************************************)
company_record(c) ==
    [companyId |-> int_or_0(V(c, "CompanyId"), V(c, "Id")),
     companyName |-> Or(Or(V(c, "CompanyName"), V(c, "Name")), "")]

download_companies(raw) ==
    [raised |-> \E i \in 1..Len(raw) : int_or_0_raises(V(raw[i], "CompanyId"), V(raw[i], "Id")),
     records |-> [i \in 1..Len(raw) |-> company_record(raw[i])]]

\* an Optional[int]: None, or an int
NoneInt == [null |-> TRUE, int |-> 0]

SomeInt(n) == [null |-> FALSE, int |-> n]

\* an element that holds a repeated element (EmailAddresses holds
\* EmailAddress): it is absent, or text, or a dict whose elems are the
\* entries it holds: none, one (xmltodict gives a dict) or several (a list)
NoElement == [kind |-> "absent", elems |-> <<>>]

TextElement == [kind |-> "scalar", elems |-> <<>>]

Holder(elems) == [kind |-> "object", elems |-> elems]

\* p.get(key) for a holding element
Get(d, key) == IF key \in DOMAIN d THEN d[key] ELSE NoElement

\* container.get(<entry>) or [], a single dict made a list of one; nothing
\* when the container is no dict
entries_of(c) == IF c.kind = "object" THEN c.elems ELSE <<>>

\* the loop with break: the first entry whose Type, lowered, is the tag; 0 when none
tagged(entries, tag) ==
    LET hits == {i \in 1..Len(entries) : Lower(Or(V(entries[i], "Type"), "")) = tag}
    IN  IF hits = {} THEN 0 ELSE CHOOSE i \in hits : \A j \in hits : i <= j

\* _extract_email: the Value of the primary entry or of the first one when
\* there are entries, else the flat Email
extract_email(p) ==
    LET emails == entries_of(Get(p, "EmailAddresses"))
    IN  IF emails # <<>>
        THEN LET i == tagged(emails, "primary")
                 chosen == IF i # 0 THEN emails[i] ELSE emails[1]
             IN  V(chosen, "Value")
        ELSE V(p, "Email")

\* _extract_phone: mobile or phone or ""
extract_phone(p) ==
    LET phones == entries_of(Get(p, "PhoneNumbers"))
        i == tagged(phones, "mobile")
        mobile_row == IF i # 0 THEN V(phones[i], "Value") ELSE None
        phone_first == IF phones # <<>> /\ Falsy(mobile_row) THEN Or(V(phones[1], "Value"), None) ELSE None
        phone == IF Falsy(phone_first) THEN V(p, "Phone") ELSE phone_first
        mobile == IF Falsy(mobile_row) THEN V(p, "Mobile") ELSE mobile_row
    IN  Or(Or(mobile, phone), "")

\* (variant of extract_company_id_from_relations: the last relation, not the first)
extract_company_id_from_last_relation(p) ==
    LET rels == entries_of(Get(p, "RelationData"))
    IN  IF rels = <<>> THEN NoneInt
        ELSE LET cid == V(rels[Len(rels)], "CustomerId")
             IN  IF cid # None /\ IsDecimal(cid) THEN SomeInt(PyInt(cid)) ELSE NoneInt

\* _extract_company_id_from_relations: int(CustomerId) of the first relation,
\* None when there is no relation or int() raises
extract_company_id_from_relations(p) ==
    LET rels == entries_of(Get(p, "RelationData"))
    IN  IF rels = <<>> THEN NoneInt
        ELSE LET cid == V(rels[1], "CustomerId")
             IN  IF cid # None /\ IsDecimal(cid) THEN SomeInt(PyInt(cid)) ELSE NoneInt

\* company_id of download_persons: the relation's, and when that is None
\* int(CustomerId or 0) or None, None when int() raises
company_id_of(p) ==
    LET company_id == extract_company_id_from_relations(p)
        flat == V(p, "CustomerId")
    IN  IF ~company_id.null THEN company_id
        ELSE IF Falsy(flat) \/ ~IsDecimal(flat) \/ PyInt(flat) = 0 THEN NoneInt
        ELSE SomeInt(PyInt(flat))

\* int(_v(p, "Id") or 0) inside try/except: 0 when it does not parse
person_record(p) ==
    [personId |-> int_or_0(V(p, "Id"), None),
     companyId |-> company_id_of(p),
     email |-> Or(extract_email(p), None),
     phone |-> Or(extract_phone(p), None),
     role |-> Or(Or(V(p, "WorkPosition"), V(p, "Role")), None)]

download_persons(raw) == [raised |-> FALSE, records |-> [i \in 1..Len(raw) |-> person_record(raw[i])]]

\* (variant of date_paid_of: a blank Paid kept as the date)
date_paid_of_unstripped(paid_date) == IF ~Falsy(paid_date) THEN paid_date ELSE None

\* datePaid: paid_date if paid_date and paid_date.strip() else None
date_paid_of(paid_date) == IF ~Falsy(paid_date) /\ ~Falsy(Strip(paid_date)) THEN paid_date ELSE None

\* (variant of balance_of: the total whatever the status)
balance_of_total(status, total_inc_vat) == total_inc_vat

\* balance by status: 0 when Credited or Paid, else the total
balance_of(status, total_inc_vat) ==
    IF status = "Credited" THEN 0 ELSE IF status = "Paid" THEN 0 ELSE total_inc_vat

\* amount paid by status: the total when Paid, else 0
amount_paid_of(status, total_inc_vat) == IF status = "Paid" THEN total_inc_vat ELSE 0

\* (variant of actual_status: the Paid date looked at before IsCredited)
actual_status_paid_first(is_credited, paid_date) ==
    IF ~Falsy(paid_date) /\ ~Falsy(Strip(paid_date)) THEN "Paid"
    ELSE IF is_credited = 1 THEN "Credited"
    ELSE "Unpaid"

\* status by precedence: credited, then paid, else unpaid
actual_status(is_credited, paid_date) ==
    IF is_credited = 1 THEN "Credited"
    ELSE IF ~Falsy(paid_date) /\ ~Falsy(Strip(paid_date)) THEN "Paid"
    ELSE "Unpaid"

invoice_record(inv) ==
    LET paid_date == Or(V(inv, "Paid"), "")
        is_credited == to_bool(V(inv, "IsCredited"))
        total_inc_vat == to_float(V(inv, "OrderTotalIncVat"))
        status == actual_status(is_credited, paid_date)
    IN  [invoiceId |-> to_int_or_0(V(inv, "InvoiceId")),
         customerName |-> Or(V(inv, "CustomerName"), ""),
         datePaid |-> date_paid_of(paid_date),
         totalIncVat |-> total_inc_vat,
         amountPaid |-> amount_paid_of(status, total_inc_vat),
         balance |-> balance_of(status, total_inc_vat),
         status |-> status,
         isCredited |-> is_credited]

\* (variant of has_invoice_id: no record is filtered out)
has_invoice_id_or_not(rec) == TRUE

\* the records with a falsy invoiceId are filtered out
has_invoice_id(rec) == rec.invoiceId # 0

download_invoices(raw) ==
    [raised |-> FALSE, records |-> SelectSeq([i \in 1..Len(raw) |-> invoice_record(raw[i])], has_invoice_id)]

product_record(p) ==
    [productId |-> int_or_0(V(p, "Id"), V(p, "ProductId")),
     productNo |-> Or(Or(V(p, "No"), V(p, "ProductNo")), "")]

download_products(raw) ==
    [raised |-> \E i \in 1..Len(raw) : int_or_0_raises(V(raw[i], "Id"), V(raw[i], "ProductId")),
     records |-> [i \in 1..Len(raw) |-> product_record(raw[i])]]

\* dim_id = d.get("Id") or d.get("Value") or None
dim_id_of(d) == Or(Or(V(d, "Id"), V(d, "Value")), None)

\* the loop of extract_dimensions from entry i on: an entry without id or
\* with text that is no number is passed over (except ValueError); the
\* others set the dimension their lowered Type names, later ones over
\* earlier ones
RECURSIVE dimension_loop(_, _, _)
dimension_loop(dim_items, i, dims) ==
    IF i > Len(dim_items) THEN dims
    ELSE LET d == dim_items[i]
             dim_type == Lower(Or(V(d, "Type"), ""))
             dim_id == dim_id_of(d)
         IN  IF Falsy(dim_id) \/ ~IsDecimal(dim_id) THEN dimension_loop(dim_items, i + 1, dims)
             ELSE IF dim_type = "customer"
             THEN dimension_loop(dim_items, i + 1, [dims EXCEPT !.customerId = SomeInt(PyInt(dim_id))])
             ELSE IF dim_type = "project"
             THEN dimension_loop(dim_items, i + 1, [dims EXCEPT !.projectId = SomeInt(PyInt(dim_id))])
             ELSE IF dim_type = "department"
             THEN dimension_loop(dim_items, i + 1, [dims EXCEPT !.departmentId = SomeInt(PyInt(dim_id))])
             ELSE dimension_loop(dim_items, i + 1, dims)

\* extract_dimensions: int(dim_id) raises TypeError, which is not caught, on
\* an id that is a dict (an element with attributes or children)
extract_dimensions(t) ==
    LET dim_items == entries_of(Get(t, "Dimensions"))
    IN  [raised |-> \E i \in 1..Len(dim_items) : dim_id_of(dim_items[i]) = Nested,
         dims |-> dimension_loop(dim_items, 1,
                                 [customerId |-> NoneInt, projectId |-> NoneInt, departmentId |-> NoneInt])]

transaction_record(t) ==
    [transactionId |-> Or(V(t, "Id"), None),
     currency |-> Or(V(t, "Currency"), "")]

download_transactions(raw) == [raised |-> FALSE, records |-> [i \in 1..Len(raw) |-> transaction_record(raw[i])]]

\* str(x): text stays, None or "" has become "" before the call
account_record(a) ==
    [accountNo |-> Or(V(a, "AccountNo"), ""),
     name |-> Or(V(a, "AccountName"), "")]

download_accounts(raw) == [raised |-> FALSE, records |-> [i \in 1..Len(raw) |-> account_record(raw[i])]]

\* the extractor of entity e
download(e, raw) ==
    CASE e = "companies" -> download_companies(raw)
      [] e = "persons" -> download_persons(raw)
      [] e = "invoices" -> download_invoices(raw)
      [] e = "products" -> download_products(raw)
      [] e = "transactions" -> download_transactions(raw)
      [] e = "accounts" -> download_accounts(raw)

(***************************************************************************)
(* Upsert Store.  A table is a bag of rows (a TEXT primary key admits      *)
(* several rows with a NULL key); a row has the columns of the INSERT      *)
(* statement.  The connection has the committed tables (db) and its own    *)
(* view of them (work), which also holds the rows written since the last   *)
(* commit: Python's sqlite3 opens a transaction before the first INSERT    *)
(* and leaves it open when a statement raises.                             *)
(***************************************************************************)
\* the primary key column of each table (init_schema)
PK(e) ==
    CASE e = "companies" -> "companyId"
      [] e = "persons" -> "personId"
      [] e = "invoices" -> "invoiceId"
      [] e = "products" -> "productId"
      [] e = "transactions" -> "transactionId"
      [] e = "accounts" -> "accountNo"

\* the columns each upsert statement names, among the fields of the model
Columns(e) ==
    CASE e = "companies" -> {"companyId", "companyName"}
      [] e = "persons" -> {"personId", "role"}
      [] e = "invoices" -> {"invoiceId", "customerName", "totalIncVat", "status"}
      [] e = "products" -> {"productId", "productNo"}
      [] e = "transactions" -> {"transactionId", "currency"}
      [] e = "accounts" -> {"accountNo", "name"}

\* the columns bound to a wire value as it came: a dict there cannot be bound
WireColumns(e) ==
    CASE e = "companies" -> {"companyName"}
      [] e = "persons" -> {"role"}
      [] e = "invoices" -> {"customerName"}
      [] e = "products" -> {"productNo"}
      [] e = "transactions" -> {"transactionId", "currency"}
      [] e = "accounts" -> {"name"}

\* the row the statement's named parameters take from a record
Row(e, rec) == [c \in Columns(e) |-> rec[c]]

\* sqlite3 raises "Error binding parameter: type 'dict' is not supported"
Bindable(e, rec) == \A c \in WireColumns(e) : rec[c] # Nested

\* a NULL key (TEXT primary key only) conflicts with no row
HasKey(e, r) == IF e \in TextKeyed THEN r[PK(e)] # None ELSE TRUE

Conflicting(e, T, r) == {x \in BagToSet(T) : HasKey(e, r) /\ x[PK(e)] = r[PK(e)]}

\* (variant of insert_or_replace: the table emptied before the insert)
insert_or_replace_emptying(e, T, r) == SetToBag({r})

\* INSERT OR REPLACE: the conflicting row is deleted, the new one inserted
insert_or_replace(e, T, r) == (T (-) SetToBag(Conflicting(e, T, r))) (+) SetToBag({r})

\* (variant of on_conflict_update: ON CONFLICT DO NOTHING, the old row stays)
on_conflict_do_nothing(e, T, r) ==
    IF Conflicting(e, T, r) = {} THEN T (+) SetToBag({r}) ELSE T

\* INSERT ... ON CONFLICT(key) DO UPDATE SET every non-key column = excluded
on_conflict_update(e, T, r) ==
    LET old == Conflicting(e, T, r)
        set(x) == [c \in Columns(e) |-> IF c = PK(e) THEN x[c] ELSE r[c]]
    IN  IF old = {} THEN T (+) SetToBag({r})
        ELSE (T (-) SetToBag(old)) (+) SetToBag({set(x) : x \in old})

\* one statement of an upsert on table e
execute(e, T, r) ==
    IF e \in ReplaceTables THEN insert_or_replace(e, T, r) ELSE on_conflict_update(e, T, r)

\* cursor.executemany (and the loop of upsert_transactions): the rows in
\* order, stopping at the first that raises; the rows before it stay written
RECURSIVE executemany(_, _, _, _)
executemany(e, T, rows, i) ==
    IF i > Len(rows) THEN [table |-> T, raised |-> FALSE, rowcount |-> Len(rows)]
    ELSE IF ~Bindable(e, rows[i]) THEN [table |-> T, raised |-> TRUE, rowcount |-> i - 1]
    ELSE executemany(e, execute(e, T, Row(e, rows[i])), rows, i + 1)

\* (variant of upsert_return: the number of rows the table gained)
upsert_return_net_new(e, before, x, records) == BagCardinality(x.table) - BagCardinality(before)

\* what an upsert returns: len(rows) (companies, persons, invoices),
\* cur.rowcount (products, accounts) or the counter of its loop (transactions)
upsert_return(e, before, x, records) ==
    IF e \in {"companies", "persons", "invoices"} THEN Len(records) ELSE x.rowcount

\* upsert_<entity>(conn, records) on a connection [db, work]:
\* returns the connection after the call, whether it raised, and its result;
\* "if not rows: return 0" comes before any statement and before the commit
upsert(e, c, records) ==
    IF records = <<>> THEN [db |-> c.db, work |-> c.work, raised |-> FALSE, ret |-> 0]
    ELSE LET x == executemany(e, c.work[e], records, 1)
             written == [c.work EXCEPT ![e] = x.table]
         IN  IF x.raised
             THEN [db |-> c.db, work |-> written, raised |-> TRUE, ret |-> 0]
             ELSE [db |-> written, work |-> written, raised |-> FALSE,
                   ret |-> upsert_return(e, c.work[e], x, records)]

(***************************************************************************)
(* State of a sync run.                                                    *)
(***************************************************************************)
VARIABLES
    pc,             \* where main() is: a step, or done / returned / crashed
    config,         \* the entities whose endpoint URL is set (finago_config)
    client_session, \* session_id of the auth service's client
    session_id,     \* main's session_id, None before login
    conn,           \* the store connection: "none", "open" or "closed"
    db,             \* the committed tables
    work,           \* the tables as the connection sees them
    db0,            \* the committed tables when the run began
    report,         \* per entity, what main printed for it
    cause,          \* per entity, the step that failed: "fetch", "persist" or "none"
    attempted,      \* the entities whose download_* was called
    fetched,        \* per entity, the records its download_* returned
    requests,       \* the entities whose endpoint got a request
    ent,            \* the entity of the last extraction or upsert
    resp,           \* the raw items of the last response
    batch,          \* the records last handed to an upsert (or extracted)
    ret,            \* what the last upsert returned
    prev,           \* the connection's tables before the last upsert
    calls,          \* upsert calls made on the same batch
    changed_after,  \* the changed_after argument of the fetches
    sent,           \* per entity, the date filter its request carried (<<>>: none)
    shape,          \* the parsed value of the repeated element of a response
    items,          \* the nodes the loop of an extractor goes over
    out,            \* the last call of v: its key and what it returned
    arg,            \* the raw item handed to a field extraction
    result,         \* what the field extraction gave
    cookie,         \* the ASP.NET_SessionId cookie of the auth service's client
    logins          \* what each login call on the client received, oldest first

\* the variables of one fetch followed from the request to the raw items
fetch_vars == <<shape, items, out>>

\* the variables of one field extraction on one raw item
call_vars == <<arg, result>>

vars == <<pc, config, client_session, session_id, conn, db, work, db0, report, cause,
          attempted, fetched, requests, ent, resp, batch, ret, prev, calls,
          changed_after, sent, shape, items, out, arg, result, cookie, logins>>

EmptyStore == [e \in Entities |-> EmptyBag]

\* a raw item of entity e with the given id and pass-through text
RawItem(e, id, text) ==
    CASE e = "companies" -> [CompanyId |-> id, CompanyName |-> text]
      [] e = "persons" -> [Id |-> id, WorkPosition |-> text]
      [] e = "invoices" -> [InvoiceId |-> id, CustomerName |-> text, IsCredited |-> "false",
                            Paid |-> None, OrderTotalIncVat |-> "7"]
      [] e = "products" -> [Id |-> id, No |-> text]
      [] e = "transactions" -> [Id |-> id, Currency |-> text]
      [] e = "accounts" -> [AccountNo |-> id, AccountName |-> text]

\* the store an earlier run left: one row with key 1 in every table
SeededStore ==
    [e \in Entities |-> SetToBag({Row(e, download(e, <<RawItem(e, "1", "old")>>).records[1])})]

\* the payment fields of the invoices of a run, by position: paid, unpaid, credited
PaymentKinds ==
    <<[IsCredited |-> "false", Paid |-> "2024-01-01"],
      [IsCredited |-> "false", Paid |-> None],
      [IsCredited |-> "true", Paid |-> "2024-01-01"]>>

WithPayment(item, i) ==
    LET k == PaymentKinds[((i - 1) % Len(PaymentKinds)) + 1]
    IN  [item EXCEPT !.IsCredited = k.IsCredited, !.Paid = k.Paid]

\* the responses of a run: n items with the keys 1..n, the last of them
\* carrying a dict where text is expected when bad
RunResponses(e) ==
    {[i \in 1..n |->
        LET item == RawItem(e, Str(i), IF bad /\ i = n THEN Nested ELSE "new")
        IN  IF e = "invoices" THEN WithPayment(item, i) ELSE item] :
     n \in 0..MaxBatch, bad \in BOOLEAN}

\* endpoint configurations of a run: all set, or one missing
Configs == {Entities} \cup {Entities \ {e} : e \in Entities}

\* the repeated element is not in the response
Absent == [kind |-> "absent", text |-> "", elems |-> <<>>]

\* no field extraction was called
NoArg == [fn |-> "none", item |-> <<>>]

NoResult == [returned |-> FALSE]

\* v was not called yet
NoCall == [called |-> FALSE, index |-> 0, key |-> "", raised |-> FALSE, value |-> None]

Init ==
    /\ pc = "login"
    /\ config \in Configs
    /\ client_session = None
    /\ session_id = None
    /\ conn = "none"
    /\ db = SeededStore
    /\ work = db
    /\ db0 = db
    /\ report = [e \in Entities |-> "todo"]
    /\ cause = [e \in Entities |-> "none"]
    /\ attempted = {}
    /\ fetched = [e \in Entities |-> <<>>]
    /\ requests = {}
    /\ ent = "none"
    /\ resp = <<>>
    /\ batch = <<>>
    /\ ret = 0
    /\ prev = db
    /\ calls = 0
    /\ changed_after = <<"2000-01-01">>
    /\ sent = [e \in Entities |-> <<>>]
    /\ shape = Absent
    /\ items = <<>>
    /\ out = NoCall
    /\ arg = NoArg
    /\ result = NoResult
    /\ cookie = client_session
    /\ logins = <<>>

(***************************************************************************)
(* The sync run: finago_sync_cli.main.                                     *)
(***************************************************************************)
\* what the Login exchange can give: the call raises (transport), or the
\* response carries LoginResult or not
LoginOutcomes ==
    {[call_raised |-> TRUE, result |-> None],
     [call_raised |-> FALSE, result |-> None],
     [call_raised |-> FALSE, result |-> "S1"]}

\* (variant of login_raises: no check of the LoginResult)
login_raises_on_transport_only(o) == o.call_raised

\* AuthService.login raises: client.call raised, or "if not login_result"
login_raises(o) == o.call_raised \/ Falsy(o.result)

\* (variant of sets_session: every login sets the session of the client)
sets_session_always(current) == TRUE

\* "if not self.client.session_id:" before self.client.set_session(session_id)
sets_session(current) == Falsy(current)

\* 1) Logging in; an exception leaves main
Login ==
    /\ pc = "login"
    /\ \E o \in LoginOutcomes :
         /\ logins' = Append(logins, o)
         /\ IF login_raises(o)
            THEN /\ pc' = "crashed"
                 /\ UNCHANGED <<session_id, client_session, cookie>>
            ELSE /\ pc' = "identities"
                 /\ session_id' = Strip(o.result)
                 /\ client_session' = IF sets_session(client_session) THEN Strip(o.result) ELSE client_session
                 /\ cookie' = IF sets_session(client_session) THEN Strip(o.result) ELSE cookie
    /\ UNCHANGED <<fetch_vars, call_vars, changed_after, sent, config, conn, db, work, db0, report, cause, attempted, fetched, requests,
                   ent, resp, batch, ret, prev, calls>>

\* 2) Fetching identities: the call raises, or no identity (main returns), or some
GetIdentities ==
    /\ pc = "identities"
    /\ \E o \in {"raise", "empty", "some"} :
         pc' = CASE o = "raise" -> "crashed" [] o = "empty" -> "returned" [] OTHER -> "set_identity"
    /\ UNCHANGED <<fetch_vars, call_vars, cookie, logins, changed_after, sent, config, client_session, session_id, conn, db, work, db0, report, cause,
                   attempted, fetched, requests, ent, resp, batch, ret, prev, calls>>

\* 3) Setting the chosen identity: the call raises or not
SetIdentity ==
    /\ pc = "set_identity"
    /\ \E o \in {"raise", "ok"} : pc' = IF o = "raise" THEN "crashed" ELSE "connect"
    /\ UNCHANGED <<fetch_vars, call_vars, cookie, logins, changed_after, sent, config, client_session, session_id, conn, db, work, db0, report, cause,
                   attempted, fetched, requests, ent, resp, batch, ret, prev, calls>>

\* get_connection and init_schema (CREATE TABLE IF NOT EXISTS, commit)
Connect ==
    /\ pc = "connect"
    /\ conn' = "open"
    /\ work' = db
    /\ pc' = EntityOrder[1]
    /\ UNCHANGED <<fetch_vars, call_vars, cookie, logins, changed_after, sent, config, client_session, session_id, db, db0, report, cause, attempted,
                   fetched, requests, ent, resp, batch, ret, prev, calls>>

\* the step after the sync of e
NextStep(e) == IF IndexOf(e) = Len(EntityOrder) THEN "close" ELSE EntityOrder[IndexOf(e) + 1]

\* (variant of after_exception: a guarded entity that failed is tried again)
after_exception_retrying(e) == IF e \in Guarded THEN e ELSE "crashed"

\* where main is after an exception in the sync of e
after_exception(e) == IF e \in Guarded THEN NextStep(e) ELSE "crashed"

\* the changed_after main hands to download_<e>: its own variable, but the
\* literal "2000-01-01" for persons; download_accounts takes none
passed_changed_after(e, ca) == IF e = "persons" THEN <<"2000-01-01">> ELSE ca

\* (variant of Fetches: the request made whether the URL is set or not)
Fetches_ignoring_config(e) ==
    {[raised |-> TRUE, raw |-> <<>>]} \cup {[raised |-> FALSE, raw |-> r] : r \in RunResponses(e)}

\* what the fetch of e can give: nothing without a request when the URL is
\* not set; else client.call raises (transport) or returns a response
Fetches(e) ==
    IF e \in config
    THEN {[raised |-> TRUE, raw |-> <<>>]} \cup {[raised |-> FALSE, raw |-> r] : r \in RunResponses(e)}
    ELSE {[raised |-> FALSE, raw |-> <<>>]}

\* one entity sync of main: download_<e>, then upsert_<e> "if <records>:"
Sync(e) ==
    /\ pc = e
    /\ attempted' = attempted \cup {e}
    /\ requests' = IF e \in config THEN requests \cup {e} ELSE requests
    /\ ent' = e
    /\ \E f \in Fetches(e) :
         LET x == download(e, f.raw)
             fetch_failed == f.raised \/ x.raised
             records == IF fetch_failed THEN <<>> ELSE x.records
             u == IF records = <<>>
                  THEN [db |-> db, work |-> work, raised |-> FALSE, ret |-> 0]
                  ELSE upsert(e, [db |-> db, work |-> work], records)
             failed == fetch_failed \/ u.raised
         IN  /\ resp' = f.raw
             /\ fetched' = [fetched EXCEPT ![e] = records]
             /\ batch' = records
             /\ prev' = work
             /\ db' = u.db
             /\ work' = u.work
             /\ ret' = u.ret
             /\ cause' = [cause EXCEPT ![e] =
                            IF fetch_failed THEN "fetch" ELSE IF u.raised THEN "persist" ELSE "none"]
             /\ report' = [report EXCEPT ![e] =
                             IF failed THEN (IF e \in Guarded THEN "failed" ELSE "uncaught")
                             ELSE IF records = <<>> THEN "none" ELSE "upserted"]
             /\ pc' = IF failed THEN after_exception(e) ELSE NextStep(e)
    /\ sent' = IF e \in config THEN [sent EXCEPT ![e] = date_filter(e, passed_changed_after(e, changed_after))] ELSE sent
    /\ UNCHANGED <<fetch_vars, call_vars, cookie, logins, changed_after, config, client_session, session_id, conn, db0, calls>>

SyncCompanies == Sync("companies")

SyncPersons == Sync("persons")

SyncInvoices == Sync("invoices")

SyncProducts == Sync("products")

SyncTransactions == Sync("transactions")

SyncAccounts == Sync("accounts")

\* conn.close(): what was written and not committed is rolled back
Close ==
    /\ pc = "close"
    /\ conn' = "closed"
    /\ work' = db
    /\ pc' = "done"
    /\ UNCHANGED <<fetch_vars, call_vars, cookie, logins, changed_after, sent, config, client_session, session_id, db, db0, report, cause, attempted,
                   fetched, requests, ent, resp, batch, ret, prev, calls>>

Next ==
    \/ Login
    \/ GetIdentities
    \/ SetIdentity
    \/ Connect
    \/ SyncCompanies
    \/ SyncPersons
    \/ SyncInvoices
    \/ SyncProducts
    \/ SyncTransactions
    \/ SyncAccounts
    \/ Close

Spec == Init /\ [][Next]_vars

\* main has ended: normally, by its early return, or by an exception
Terminal == {"done", "returned", "crashed"}

\* the exit status of the process: main() is called at module level with no
\* sys.exit, so it is 0 when main returns and 1 when an exception leaves it
exit_status_of(end) == IF end = "crashed" THEN 1 ELSE 0

exit_status == exit_status_of(pc)

(***************************************************************************)
(* A run that can be aborted while the store is open: the process is       *)
(* killed or interrupted (KeyboardInterrupt is no Exception, so no except  *)
(* clause of main catches it).  No commit follows; sqlite rolls back what  *)
(* the connection wrote since its last commit.                             *)
(***************************************************************************)
\* the abort falls between two steps of main
AbortBetween ==
    /\ conn = "open"
    /\ pc \in Entities \cup {"close"}
    /\ pc' = "aborted"
    /\ conn' = "lost"
    /\ work' = db
    /\ UNCHANGED <<fetch_vars, call_vars, cookie, logins, changed_after, sent, config, client_session, session_id, db, db0, report, cause, attempted,
                   fetched, requests, ent, resp, batch, ret, prev, calls>>

\* the abort falls inside the upsert of entity e, after k rows of its batch
\* were executed and before the commit
AbortInside(e) ==
    /\ conn = "open"
    /\ pc = e
    /\ \E f \in Fetches(e) :
         LET x == download(e, f.raw)
         IN  /\ ~f.raised
             /\ ~x.raised
             /\ x.records # <<>>
             /\ \E k \in 0..Len(x.records) :
                  LET w == executemany(e, work[e], SubSeq(x.records, 1, k), 1)
                  IN  /\ ~w.raised
                      /\ prev' = [work EXCEPT ![e] = w.table]
                      /\ ret' = w.rowcount
             /\ resp' = f.raw
             /\ fetched' = [fetched EXCEPT ![e] = x.records]
             /\ batch' = x.records
    /\ attempted' = attempted \cup {e}
    /\ requests' = requests \cup {e}
    /\ ent' = e
    /\ pc' = "aborted"
    /\ conn' = "lost"
    /\ work' = db
    /\ sent' = [sent EXCEPT ![e] = date_filter(e, passed_changed_after(e, changed_after))]
    /\ UNCHANGED <<fetch_vars, call_vars, cookie, logins, changed_after, config, client_session, session_id, db, db0, report,
                   cause, calls>>

Abort == AbortBetween \/ \E e \in Entities : AbortInside(e)

NextAbort == Next \/ Abort

SpecAbort == Init /\ [][NextAbort]_vars

(***************************************************************************)
(* One entity on its own: a response is extracted, and the records are     *)
(* upserted, possibly again.  The responses hold one arbitrary raw item    *)
(* among plain ones.                                                       *)
(***************************************************************************)
\* most upsert calls made with one batch
MaxCalls == 2

\* wire values of an id field: absent, empty, zero, no number, or a key
WireIds == {None, "", "0", "x"} \cup {Str(i) : i \in 1..MaxKey}

\* wire values of a text field: absent, text, or an element with children
WireTexts == {None, "a", Nested}

RawItems(e) ==
    CASE e = "companies" -> [CompanyId : WireIds, Id : {None, "2"}, CompanyName : WireTexts]
      [] e = "persons" -> [Id : WireIds, WorkPosition : WireTexts]
      [] e = "invoices" ->
           [InvoiceId : WireIds, CustomerName : WireTexts,
            IsCredited : {None, "true", "YES", "1", "false"},
            Paid : {None, "", " ", "2024-01-01"},
            OrderTotalIncVat : {None, "7", "x"}]
      [] e = "products" -> [Id : WireIds, ProductId : {None, "2"}, No : WireTexts]
      [] e = "transactions" -> [Id : WireIds, Currency : WireTexts]
      [] e = "accounts" -> [AccountNo : WireIds, AccountName : WireTexts]

Responses(e) ==
    {<<>>} \cup
    UNION {{[i \in 1..n |-> IF i = p THEN x ELSE RawItem(e, Str(i), "a")] :
              p \in 1..n, x \in RawItems(e)} : n \in 1..MaxBatch}

InitEntity ==
    /\ pc = "fetched"
    /\ ent \in Entities
    /\ resp \in Responses(ent)
    /\ config = Entities
    /\ client_session = "S1"
    /\ session_id = "S1"
    /\ conn = "open"
    /\ db \in {EmptyStore, SeededStore}
    /\ work = db
    /\ db0 = db
    /\ report = [e \in Entities |-> "todo"]
    /\ cause = [e \in Entities |-> "none"]
    /\ attempted = {}
    /\ fetched = [e \in Entities |-> <<>>]
    /\ requests = {}
    /\ batch = <<>>
    /\ ret = 0
    /\ prev = db
    /\ calls = 0
    /\ changed_after = <<"2000-01-01">>
    /\ sent = [e \in Entities |-> <<>>]
    /\ shape = Absent
    /\ items = <<>>
    /\ out = NoCall
    /\ arg = NoArg
    /\ result = NoResult
    /\ cookie = client_session
    /\ logins = <<>>

\* the extractor of the entity on the response
Extract ==
    /\ pc = "fetched"
    /\ LET x == download(ent, resp)
       IN  /\ pc' = IF x.raised THEN "raised" ELSE "extracted"
           /\ batch' = IF x.raised THEN <<>> ELSE x.records
           /\ fetched' = [fetched EXCEPT ![ent] = IF x.raised THEN <<>> ELSE x.records]
    /\ UNCHANGED <<fetch_vars, call_vars, cookie, logins, changed_after, sent, config, client_session, session_id, conn, db, work, db0, report, cause,
                   attempted, requests, ent, resp, ret, prev, calls>>

\* upsert_<entity>(conn, batch)
Upsert ==
    /\ pc = "extracted"
    /\ calls < MaxCalls
    /\ LET u == upsert(ent, [db |-> db, work |-> work], batch)
       IN  /\ prev' = work
           /\ db' = u.db
           /\ work' = u.work
           /\ ret' = u.ret
           /\ pc' = IF u.raised THEN "raised" ELSE "extracted"
    /\ calls' = calls + 1
    /\ UNCHANGED <<fetch_vars, call_vars, cookie, logins, changed_after, sent, config, client_session, session_id, conn, db0, report, cause, attempted,
                   fetched, requests, ent, resp, batch>>

NextEntity == Extract \/ Upsert

SpecEntity == InitEntity /\ [][NextEntity]_vars

(***************************************************************************)
(* One fetch followed from the request to the raw items: the date filter,  *)
(* the wire shape of the repeated result element, and v on the fields of   *)
(* the nodes the loop goes over.                                           *)
(***************************************************************************)
\* changed_after arguments: a date, or a date with a time
ChangedAfters ==
    {<<"2000-01-01">>, <<"2024-01-01">>,
     <<"2024-01-01", "T", "08:00:00">>, <<"2024-01-01", "T", "00:00:00">>}

\* raw items of a response: plain fields, or fields that occur twice
ShapeItems(e) == {RawItem(e, "1", "a"), RawItem(e, "[1, 2]", "[a, b]")}

\* what xmltodict can give for the repeated element: nothing, text, one
\* object, or a list of N objects (N >= 2)
Shapes(e) ==
    {Absent}
    \cup {[kind |-> "scalar", text |-> t, elems |-> <<>>] : t \in {"a", "ab"}}
    \cup {[kind |-> "object", text |-> "", elems |-> <<x>>] : x \in ShapeItems(e)}
    \cup {[kind |-> "list", text |-> "", elems |-> [i \in 1..n |-> RawItem(e, Str(i), "a")]] :
             n \in 2..(MaxBatch + 1)}

\* the characters of a text: what a for loop over a str goes over
Chars(t) == CASE t = "a" -> <<"a">> [] t = "ab" -> <<"a", "b">> [] OTHER -> <<>>

DictNode(x) == [dict |-> TRUE, fields |-> x, text |-> ""]

StrNode(c) == [dict |-> FALSE, fields |-> [k \in {} |-> None], text |-> c]

\* raw_items = result.get(<element>) or []; a dict is wrapped in a list; a
\* list stays; a str stays too, and the loop goes over its characters
list_of(sh) ==
    CASE sh.kind = "absent" -> <<>>
      [] sh.kind = "scalar" -> [i \in 1..Len(Chars(sh.text)) |-> StrNode(Chars(sh.text)[i])]
      [] sh.kind = "object" -> <<DictNode(sh.elems[1])>>
      [] sh.kind = "list" -> [i \in 1..Len(sh.elems) |-> DictNode(sh.elems[i])]

\* the keys an extractor reads from a node, and one no response carries
ReadKeys(e) == DOMAIN RawItem(e, "1", "a") \cup {"Missing"}

InitFetch ==
    /\ pc = "request"
    /\ ent \in Entities
    /\ changed_after \in ChangedAfters
    /\ config \in {Entities, Entities \ {ent}}
    /\ shape \in Shapes(ent)
    /\ sent = [e \in Entities |-> <<>>]
    /\ items = <<>>
    /\ out = NoCall
    /\ client_session = "S1"
    /\ session_id = "S1"
    /\ conn = "none"
    /\ db = EmptyStore
    /\ work = db
    /\ db0 = db
    /\ report = [e \in Entities |-> "todo"]
    /\ cause = [e \in Entities |-> "none"]
    /\ attempted = {}
    /\ fetched = [e \in Entities |-> <<>>]
    /\ requests = {}
    /\ resp = <<>>
    /\ batch = <<>>
    /\ ret = 0
    /\ prev = db
    /\ calls = 0
    /\ arg = NoArg
    /\ result = NoResult
    /\ cookie = client_session
    /\ logins = <<>>

\* download_<entity> up to client.call: return [] when the URL is not set,
\* else the request with the date filter
Request ==
    /\ pc = "request"
    /\ attempted' = attempted \cup {ent}
    /\ IF ent \in config
       THEN /\ sent' = [sent EXCEPT ![ent] = date_filter(ent, changed_after)]
            /\ requests' = requests \cup {ent}
            /\ pc' = "response"
       ELSE /\ UNCHANGED <<sent, requests>>
            /\ pc' = "skipped"
    /\ UNCHANGED <<fetch_vars, call_vars, cookie, logins, changed_after, config, client_session, session_id, conn, db, work,
                   db0, report, cause, fetched, ent, resp, batch, ret, prev, calls>>

\* the repeated element of the result made into what the loop goes over
ListOf ==
    /\ pc = "response"
    /\ items' = list_of(shape)
    /\ pc' = "items"
    /\ UNCHANGED <<shape, out, call_vars, cookie, logins, changed_after, sent, config, client_session, session_id, conn, db,
                   work, db0, report, cause, attempted, fetched, requests, ent, resp, batch, ret,
                   prev, calls>>

\* _v(node, key) in the loop: d.get raises AttributeError on a str
ReadField ==
    /\ pc = "items"
    /\ \E i \in 1..Len(items), key \in ReadKeys(ent) :
         IF items[i].dict
         THEN /\ out' = [called |-> TRUE, index |-> i, key |-> key, raised |-> FALSE,
                         value |-> V(items[i].fields, key)]
              /\ pc' = "items"
         ELSE /\ out' = [called |-> TRUE, index |-> i, key |-> key, raised |-> TRUE, value |-> None]
              /\ pc' = "raised"
    /\ UNCHANGED <<shape, items, call_vars, cookie, logins, changed_after, sent, config, client_session, session_id, conn, db,
                   work, db0, report, cause, attempted, fetched, requests, ent, resp, batch, ret,
                   prev, calls>>

NextFetch == Request \/ ListOf \/ ReadField

SpecFetch == InitFetch /\ [][NextFetch]_vars

(***************************************************************************)
(* One raw item on its own: the field extractions of a person and of a     *)
(* transaction applied to an item whose sub-lists and flat fields are      *)
(* arbitrary.                                                              *)
(***************************************************************************)
\* most entries of a sub-list
MaxEntries == 2

\* the holding elements over a set of entries
Holders(E) == {NoElement, TextElement} \cup UNION {{Holder(s) : s \in [1..n -> E]} : n \in 0..MaxEntries}

EmailEntries == [Type : {None, "Primary", "work"}, Value : {None, "a", "b"}]

PhoneEntries == [Type : {None, "MOBILE", "work"}, Value : {None, "a", "b"}]

RelationEntries == [CustomerId : {None, "x", "0", "1", "2"}]

\* a dimension with its id in Id, or in Value
DimensionEntries ==
    [Type : {None, "Customer", "PROJECT", "department", "other"}, Id : {None, "x", "0", "1", Nested},
     Value : {None}]
    \cup [Type : {None, "Customer", "PROJECT", "department", "other"}, Id : {None}, Value : {"2"}]

\* a PersonItem without sub-lists and flat contact fields
PlainPerson ==
    [Id |-> "1", EmailAddresses |-> NoElement, Email |-> None, PhoneNumbers |-> NoElement,
     Phone |-> None, Mobile |-> None, RelationData |-> NoElement, CustomerId |-> None]

PersonItems ==
    {[PlainPerson EXCEPT !.EmailAddresses = h, !.Email = f] :
        h \in Holders(EmailEntries), f \in {None, "f"}}
    \cup {[PlainPerson EXCEPT !.PhoneNumbers = h, !.Phone = f, !.Mobile = m] :
            h \in Holders(PhoneEntries), f \in {None, "f"}, m \in {None, "m"}}
    \cup {[PlainPerson EXCEPT !.RelationData = h, !.CustomerId = c] :
            h \in Holders(RelationEntries), c \in {None, "x", "0", "7"}}

TransactionItems == {[Id |-> "1", Dimensions |-> h] : h \in Holders(DimensionEntries)}

InitItem ==
    /\ pc = "item"
    /\ arg \in {[fn |-> "person", item |-> p] : p \in PersonItems}
                \cup {[fn |-> "transaction", item |-> t] : t \in TransactionItems}
    /\ result = NoResult
    /\ ent = "none"
    /\ config = Entities
    /\ client_session = "S1"
    /\ session_id = "S1"
    /\ cookie = "S1"
    /\ logins = <<>>
    /\ conn = "none"
    /\ db = EmptyStore
    /\ work = db
    /\ db0 = db
    /\ report = [e \in Entities |-> "todo"]
    /\ cause = [e \in Entities |-> "none"]
    /\ attempted = {}
    /\ fetched = [e \in Entities |-> <<>>]
    /\ requests = {}
    /\ resp = <<>>
    /\ batch = <<>>
    /\ ret = 0
    /\ prev = db
    /\ calls = 0
    /\ changed_after = <<"2000-01-01">>
    /\ sent = [e \in Entities |-> <<>>]
    /\ shape = Absent
    /\ items = <<>>
    /\ out = NoCall

\* the body of the loop of download_persons on the item
ExtractPerson ==
    /\ pc = "item"
    /\ arg.fn = "person"
    /\ result' = [returned |-> TRUE, raised |-> FALSE, rec |-> person_record(arg.item)]
    /\ pc' = "extracted"
    /\ UNCHANGED <<fetch_vars, arg, cookie, logins, changed_after, sent, config, client_session, session_id,
                   conn, db, work, db0, report, cause, attempted, fetched, requests, ent, resp, batch,
                   ret, prev, calls>>

\* extract_dimensions(t) on the item
ExtractDimensions ==
    /\ pc = "item"
    /\ arg.fn = "transaction"
    /\ LET x == extract_dimensions(arg.item)
       IN  /\ result' = [returned |-> ~x.raised, raised |-> x.raised, rec |-> x.dims]
           /\ pc' = IF x.raised THEN "raised" ELSE "extracted"
    /\ UNCHANGED <<fetch_vars, arg, cookie, logins, changed_after, sent, config, client_session, session_id,
                   conn, db, work, db0, report, cause, attempted, fetched, requests, ent, resp, batch,
                   ret, prev, calls>>

NextItem == ExtractPerson \/ ExtractDimensions

SpecItem == InitItem /\ [][NextItem]_vars

(***************************************************************************)
(* One auth service used again and again: login calls on the same client.  *)
(***************************************************************************)
\* most login calls on one client
MaxLogins == 3

\* what a Login exchange can give, with the session ids the service hands out
LoginResults == LoginOutcomes \cup {[call_raised |-> FALSE, result |-> s] : s \in {"S2", "S3"}}

InitLogin ==
    /\ pc = "auth"
    /\ client_session = None
    /\ cookie = None
    /\ session_id = None
    /\ logins = <<>>
    /\ arg = NoArg
    /\ result = NoResult
    /\ ent = "none"
    /\ config = Entities
    /\ conn = "none"
    /\ db = EmptyStore
    /\ work = db
    /\ db0 = db
    /\ report = [e \in Entities |-> "todo"]
    /\ cause = [e \in Entities |-> "none"]
    /\ attempted = {}
    /\ fetched = [e \in Entities |-> <<>>]
    /\ requests = {}
    /\ resp = <<>>
    /\ batch = <<>>
    /\ ret = 0
    /\ prev = db
    /\ calls = 0
    /\ changed_after = <<"2000-01-01">>
    /\ sent = [e \in Entities |-> <<>>]
    /\ shape = Absent
    /\ items = <<>>
    /\ out = NoCall

\* AuthService.login: it raises, or returns the id it received after
\* setting it on the client when the client has none
LoginCall ==
    /\ pc = "auth"
    /\ Len(logins) < MaxLogins
    /\ \E o \in LoginResults :
         /\ logins' = Append(logins, o)
         /\ IF login_raises(o)
            THEN /\ session_id' = None
                 /\ UNCHANGED <<client_session, cookie>>
            ELSE /\ session_id' = Strip(o.result)
                 /\ client_session' = IF sets_session(client_session) THEN Strip(o.result) ELSE client_session
                 /\ cookie' = IF sets_session(client_session) THEN Strip(o.result) ELSE cookie
    /\ UNCHANGED <<pc, fetch_vars, call_vars, changed_after, sent, config, conn, db, work, db0, report,
                   cause, attempted, fetched, requests, ent, resp, batch, ret, prev, calls>>

NextLogin == LoginCall

SpecLogin == InitLogin /\ [][NextLogin]_vars

(***************************************************************************)
(* Properties of the sync run (Spec) and of one entity (SpecEntity).       *)
(***************************************************************************)
\* the row a table must hold for record i of a batch: record i is the last
\* of the batch with its key
LastOfKey(e, recs, i) == \A j \in (i + 1)..Len(recs) : recs[j][PK(e)] # recs[i][PK(e)]

\* every record of the batch that has a key is in table T, as one row holding
\* the values of the last record with that key
Persisted(e, recs, T) ==
    \A i \in 1..Len(recs) :
        (HasKey(e, recs[i]) /\ LastOfKey(e, recs, i)) =>
            /\ CopiesIn(Row(e, recs[i]), T) = 1
            /\ \A r \in BagToSet(T) : r[PK(e)] = recs[i][PK(e)] => r = Row(e, recs[i])

\* C1: when the fetch or the persist of an entity sync fails, the failure is
\* caught (main goes on and reports it) and every later entity sync of the
\* run is attempted.
C1_FailureIsolated ==
    \A e \in Entities :
        (pc \in Terminal /\ cause[e] # "none") =>
            (report[e] = "failed" /\ Later(e) \subseteq attempted)

\* C2: an upsert call that fails on some record leaves no row of its batch in
\* the committed store, also after the later entities were persisted: the
\* committed table of that entity is the one the run began with.
C2_BatchAtomic == \A e \in Entities : cause[e] = "persist" => db[e] = db0[e]

\* C3: applying the same batch a second time leaves the store as it was
\* after the first application.
C3_UpsertIdempotent == (pc = "extracted" /\ calls >= 2) => (db = prev /\ work = prev)

\* C4: when login raises or gives no session token, the run ends there: no
\* entity sync is attempted, no request is sent to an entity endpoint, the
\* store is never opened and no table changes.
C4_AuthFailureAborts ==
    (pc # "login" /\ session_id = None) =>
        /\ pc = "crashed"
        /\ attempted = {}
        /\ requests = {}
        /\ conn = "none"
        /\ db = db0
        /\ work = db0

\* a run that ended at the login, with a store that held rows
C4_Witness == pc = "crashed" /\ session_id = None /\ db = SeededStore

\* C5: a run that is authenticated (login gave a token and the identity is
\* set, so the store was opened) ends Complete with all six entity syncs
\* attempted.
C5_AuthenticatedRunCompletes ==
    (pc \in Terminal /\ session_id # None /\ conn # "none") =>
        (pc = "done" /\ attempted = Entities)

\* a run that ended where the transaction fetch failed and nothing else did
OnlyTransactionFetchFailed ==
    /\ pc \in Terminal
    /\ cause["transactions"] = "fetch"
    /\ \A e \in Entities \ {"transactions"} : cause[e] = "none"

\* C6: when only the transaction fetch fails and every other entity sync
\* succeeds, the run completes, the fetched companies, persons, invoices,
\* products and accounts are in the committed store, the transactions table
\* is unchanged, and a failure is reported for transactions only.
C6_TransactionFailureIsolated ==
    OnlyTransactionFetchFailed =>
        /\ pc = "done"
        /\ \A e \in Entities \ {"transactions"} :
             report[e] \in {"upserted", "none"} /\ Persisted(e, fetched[e], db[e])
        /\ db["transactions"] = db0["transactions"]
        /\ report["transactions"] = "failed"

\* a finished run where only the transaction fetch failed and the other five
\* entities each changed their table
C6_Witness ==
    /\ pc = "done"
    /\ OnlyTransactionFetchFailed
    /\ \A e \in Entities \ {"transactions"} : report[e] = "upserted" /\ db[e] # db0[e]

\* C7: after an upsert call that returned, every primary key of the batch
\* has exactly one row, whose columns are the values of the last batch record
\* with that key, whether the key was absent or present before.
C7_UpsertStoresBatch ==
    (pc = "extracted" /\ calls >= 1) =>
        (Persisted(ent, batch, db[ent]) /\ Persisted(ent, batch, work[ent]))

\* a batch with a key that was present with other values and a key that was absent
C7_Witness ==
    /\ pc = "extracted"
    /\ calls = 1
    /\ \E i \in 1..Len(batch) :
         \E r \in BagToSet(prev[ent]) : r[PK(ent)] = batch[i][PK(ent)] /\ r # Row(ent, batch[i])
    /\ \E i \in 1..Len(batch) :
         HasKey(ent, batch[i]) /\ \A r \in BagToSet(prev[ent]) : r[PK(ent)] # batch[i][PK(ent)]

\* a primary key that is neither null (or empty) nor zero
KeyPresent(e, rec) ==
    IF e \in {"transactions", "accounts"} THEN rec[PK(e)] \notin {None, ""} ELSE rec[PK(e)] # 0

\* C8: every record an extractor returns, for each of the six entities, has a
\* primary key that is neither null (or empty) nor zero.
C8_RecordsHaveKeys ==
    pc = "extracted" => \A i \in 1..Len(batch) : KeyPresent(ent, batch[i])

\* the wire texts the precedence of the invoice status speaks of
IsTrueText(x) == x \in {"true", "True", "TRUE", "1", "yes", "YES"}

IsDateText(x) == x \notin {None, "", " ", "  "}

HasInvoiceKey(item) == item.InvoiceId \in {Str(i) : i \in 1..9}

\* C9: each invoice record has the status, balance and amount paid that the
\* precedence gives for the IsCredited, Paid and total of its raw item:
\* credited first, then paid, else unpaid.
C9_StatusPrecedence ==
    (pc = "extracted" /\ ent = "invoices") =>
        LET kept == SelectSeq(resp, HasInvoiceKey)
        IN  /\ Len(batch) = Len(kept)
            /\ \A n \in 1..Len(batch) :
                 LET total == IF kept[n].OrderTotalIncVat = "7" THEN 7 ELSE 0
                     r == batch[n]
                 IN  /\ r.totalIncVat = total
                     /\ IF IsTrueText(kept[n].IsCredited)
                        THEN r.status = "Credited" /\ r.balance = 0 /\ r.amountPaid = 0
                        ELSE IF IsDateText(kept[n].Paid)
                        THEN r.status = "Paid" /\ r.balance = 0 /\ r.amountPaid = total
                        ELSE r.status = "Unpaid" /\ r.balance = total /\ r.amountPaid = 0

\* a credited invoice whose Paid holds a date, with a total that is not 0
C9_Witness ==
    /\ pc = "extracted"
    /\ ent = "invoices"
    /\ \E n \in 1..Len(batch) :
         batch[n].status = "Credited" /\ batch[n].datePaid # None /\ batch[n].totalIncVat # 0

\* C10: after the invoices were upserted, every fetched invoice has a row
\* with its derived status, balance and amount paid; and the table of an
\* entity whose endpoint is not set is as the run found it.
C10_InvoiceRowsCarryDerivedState ==
    /\ \A e \in Entities \ config : db[e] = db0[e]
    /\ report["invoices"] = "upserted" =>
         \A i \in 1..Len(fetched["invoices"]) :
             LET rec == fetched["invoices"][i]
             IN  \E r \in BagToSet(db["invoices"]) :
                     /\ r.invoiceId = rec.invoiceId
                     /\ r.status = rec.status
                     /\ {"balance", "amountPaid"} \subseteq DOMAIN r
                     /\ r.balance = rec.balance
                     /\ r.amountPaid = rec.amountPaid

\* C12: a run in which the fetch or the persist of some configured entity
\* failed ends with an exit status other than that of a run in which every
\* configured entity succeeded.
C12_ExitStatusReflectsFailure ==
    (pc \in Terminal /\ \E e \in config : cause[e] # "none") =>
        exit_status # exit_status_of("done")

\* C13: an extractor returns normally on every response: no raw item, with
\* whatever missing or unparsable field, makes it raise.
C13_ExtractionNeverRaises == ~(pc = "raised" /\ calls = 0)

\* C16: an entity whose endpoint URL is not set gets no request, its fetch
\* raises nothing and returns no record, no row of its table is written, and
\* main goes on with the next step.
C16_UnconfiguredEntitySkipped ==
    \A e \in attempted \ config :
        /\ e \notin requests
        /\ cause[e] = "none"
        /\ fetched[e] = <<>>
        /\ report[e] = "none"
        /\ db[e] = db0[e]
        /\ work[e] = db0[e]
        /\ \/ pc = NextStep(e)
           \/ NextStep(e) \in attempted
           \/ NextStep(e) = "close" /\ pc = "done"

\* a finished run that skipped products and upserted the entities around it
C16_Witness ==
    /\ pc = "done"
    /\ "products" \notin config
    /\ "products" \in attempted
    /\ report["invoices"] = "upserted"
    /\ report["transactions"] = "upserted"

\* the primary keys a table holds
KeysOf(e, T) == {r[PK(e)] : r \in BagToSet(T)}

C19_UpsertReturnsBatchSize == (pc = "extracted" /\ calls >= 1) => ret = Len(batch)

\* a second application of a batch of two: no row is new, 2 is returned
C19_Witness ==
    /\ pc = "extracted"
    /\ calls = 2
    /\ Len(batch) = 2
    /\ db = prev
    /\ ret = 2

\* C20: every invoice record of the extractor has a status among Unpaid,
\* Paid and Credited, and balance 0 when the status is Paid or Credited.
C20_InvoiceStatusInvariant ==
    (pc = "extracted" /\ ent = "invoices") =>
        \A i \in 1..Len(batch) :
            /\ batch[i].status \in {"Unpaid", "Paid", "Credited"}
            /\ batch[i].status \in {"Paid", "Credited"} => batch[i].balance = 0

\* a paid invoice with a total that is not 0
C20_Witness ==
    /\ pc = "extracted"
    /\ ent = "invoices"
    /\ \E i \in 1..Len(batch) : batch[i].status = "Paid" /\ batch[i].totalIncVat # 0

\* the committed table of e with the whole batch of e applied to what the
\* run began with
WholeBatchApplied(e) ==
    LET x == executemany(e, db0[e], fetched[e], 1)
    IN  ~x.raised /\ db[e] = x.table

\* C18: after an abort of the run at any point, each committed table is the
\* one from before the batch of its entity or the one with the whole batch
\* applied, never one with a part of the batch.
C18_AbortLeavesWholeBatches ==
    pc = "aborted" => \A e \in Entities : db[e] = db0[e] \/ WholeBatchApplied(e)

\* C11: every request that carries a date filter carries the changed_after
\* value with T00:00:00 appended when it has no time, and unchanged when it
\* has one.
C11_ChangedAfterNormalized ==
    \A e \in requests \ {"accounts"} :
        sent[e] = IF HasT(changed_after) THEN changed_after ELSE changed_after \o <<"T", "00:00:00">>

\* C14: the loop of an extractor goes over 0 nodes when the repeated element
\* is absent, 1 when it is a scalar, 1 when it is a single object and N when
\* it is a list of N.
C14_ListOfLengths ==
    pc = "items" =>
        Len(items) = CASE shape.kind = "absent" -> 0
                       [] shape.kind = "scalar" -> 1
                       [] shape.kind = "object" -> 1
                       [] shape.kind = "list" -> Len(shape.elems)

\* C15: every call of v returns without raising, with null for an absent
\* key, the first element for a list and the value itself otherwise.
C15_ScalarOf ==
    out.called =>
        /\ ~out.raised
        /\ LET d == items[out.index].fields
           IN  out.value = IF out.key \notin DOMAIN d THEN None
                           ELSE IF d[out.key] \in {"[1, 2]", "[a, b]"} THEN Lists[d[out.key]][1]
                           ELSE d[out.key]

\* C21: the extracted invoices are exactly the records of the raw items
\* whose InvoiceId is the text of a non-zero integer, in the order of the
\* response, each the whole record of its raw item; an item whose InvoiceId
\* is absent, empty, no number or 0 gives no record.
C21_InvoiceKeyFilter ==
    (pc = "extracted" /\ ent = "invoices") =>
        LET kept == SelectSeq(resp, HasInvoiceKey)
        IN  batch = [n \in 1..Len(kept) |-> invoice_record(kept[n])]

\* a response of two invoices whose first has InvoiceId 0: the second is kept
C21_Witness ==
    /\ pc = "extracted"
    /\ ent = "invoices"
    /\ Len(resp) = 2
    /\ resp[1].InvoiceId = "0"
    /\ Len(batch) = 1
    /\ batch[1].invoiceId = 2

\* C22: each of the six fetches takes a changed-after value, and the request
\* of every entity that was asked carries the changed-after value of the
\* run, normalized to midnight when it has no time.
C22_ChangedAfterReachesEveryFetch ==
    \A e \in requests : sent[e] = ds(changed_after)

\* the Value the resolution order picks: of the first entry with the tag
\* when it has one, else of the first entry when it has one, else the flat
IsTag(x, tag) == x \in (IF tag = "primary" THEN {"primary", "Primary", "PRIMARY"} ELSE {"mobile", "Mobile", "MOBILE"})

Resolved(entries, tag, flat) ==
    LET hits == {i \in 1..Len(entries) : IsTag(entries[i].Type, tag)}
        first == CHOOSE i \in hits : \A j \in hits : i <= j
    IN  IF hits # {} /\ ~Falsy(entries[first].Value) THEN entries[first].Value
        ELSE IF entries # <<>> /\ ~Falsy(entries[1].Value) THEN entries[1].Value
        ELSE flat

\* C23: the email of an extracted person is the Value of the entry tagged
\* primary, else of the first entry, else the flat Email; its phone is the
\* Value of the entry tagged mobile, else of the first entry, else the flat
\* Mobile or Phone; a flat field is used only when the sub-list gives no
\* value.
C23_ContactResolutionOrder ==
    (pc = "extracted" /\ arg.fn = "person") =>
        LET p == arg.item
        IN  /\ result.rec.email = Or(Resolved(p.EmailAddresses.elems, "primary", p.Email), None)
            /\ result.rec.phone = Or(Resolved(p.PhoneNumbers.elems, "mobile", Or(p.Mobile, p.Phone)), None)

\* the texts int() takes for an id
IsIdText(x) == x \in {Str(i) : i \in 0..9}

\* C24 as it was stated: the companyId of an extracted person is the
\* customer id of the first relation when a relation exists, the flat
\* CustomerId is used if and only if no relation exists, and the companyId
\* is null when neither gives an id.
C24_FlatOnlyWithoutRelation ==
    (pc = "extracted" /\ arg.fn = "person") =>
        LET p == arg.item
            rels == p.RelationData.elems
        IN  result.rec.companyId =
                IF rels # <<>>
                THEN (IF IsIdText(rels[1].CustomerId) THEN SomeInt(PyInt(rels[1].CustomerId)) ELSE NoneInt)
                ELSE IF IsIdText(p.CustomerId) /\ p.CustomerId # "0" THEN SomeInt(PyInt(p.CustomerId))
                ELSE NoneInt

\* C24: the companyId of an extracted person is the customer id of the
\* first relation when that relation carries one; the flat CustomerId is
\* used if and only if the relation list gives no id (no relation, or a
\* first relation without a customer id that is a number); the companyId
\* is null when neither gives an id.
C24_CompanyFromRelationElseFlat ==
    (pc = "extracted" /\ arg.fn = "person") =>
        LET p == arg.item
            rels == p.RelationData.elems
        IN  result.rec.companyId =
                IF rels # <<>> /\ IsIdText(rels[1].CustomerId) THEN SomeInt(PyInt(rels[1].CustomerId))
                ELSE IF IsIdText(p.CustomerId) /\ p.CustomerId # "0" THEN SomeInt(PyInt(p.CustomerId))
                ELSE NoneInt

\* a person with two relations, the first without a customer id, and a
\* flat CustomerId, which becomes the companyId
C24_Witness ==
    /\ pc = "extracted"
    /\ arg.fn = "person"
    /\ Len(arg.item.RelationData.elems) = 2
    /\ arg.item.RelationData.elems[1].CustomerId = None
    /\ arg.item.RelationData.elems[2].CustomerId = "2"
    /\ arg.item.CustomerId = "7"
    /\ result.rec.companyId = SomeInt(7)

\* the entries of a dimension list a dimension can take its value from:
\* their Type is the dimension's name in any case and their id is a number
DimensionTypes(k) ==
    CASE k = "customerId" -> {"customer", "Customer", "CUSTOMER"}
      [] k = "projectId" -> {"project", "Project", "PROJECT"}
      [] k = "departmentId" -> {"department", "Department", "DEPARTMENT"}

IdOfEntry(d) == IF Falsy(d.Id) THEN d.Value ELSE d.Id

Usable(entries, k) == {i \in 1..Len(entries) : entries[i].Type \in DimensionTypes(k) /\ IsIdText(IdOfEntry(entries[i]))}

\* C25: extract_dimensions raises on no dimension list; customerId,
\* projectId and departmentId each have the id of one entry whose Type is
\* theirs in any case and whose id is a number, and are null (not 0) when
\* the list has no such entry: entries of another type or with an id that
\* is no number add nothing.
C25_DimensionsExtracted ==
    (pc \in {"extracted", "raised"} /\ arg.fn = "transaction") =>
        /\ ~result.raised
        /\ \A k \in {"customerId", "projectId", "departmentId"} :
             LET entries == arg.item.Dimensions.elems
                 usable == Usable(entries, k)
             IN  IF usable = {} THEN result.rec[k] = NoneInt
                 ELSE \E i \in usable : result.rec[k] = SomeInt(PyInt(IdOfEntry(entries[i])))

\* C26: the entity syncs run one after the other and none is tried again:
\* whenever the run is about to sync an entity, the entities synced so far
\* are exactly those before it in the order, so this entity's fetch was not
\* issued yet, whether the earlier ones failed or not; at the end each was
\* synced.
C26_OneAtATimeNoRetry ==
    /\ pc \in Entities => attempted = {EntityOrder[i] : i \in 1..(IndexOf(pc) - 1)}
    /\ pc \in {"close", "done"} => attempted = Entities

\* the run goes on to the products after the invoices fetch failed
C26_Witness ==
    /\ pc = "products"
    /\ cause["invoices"] = "fetch"
    /\ "invoices" \in requests

\* C27: the upsert call of one entity's sync leaves the table of every
\* other entity as it was, and in its own table every row whose primary key
\* is not in the batch; a call with an empty batch changes nothing and
\* commits nothing.
C27_UpsertFrame ==
    [][\A e \in Entities :
          pc = e =>
              /\ \A o \in Entities \ {e} : db'[o] = db[o]
              /\ \A r \in BagToSet(db[e]) :
                    (\A i \in 1..Len(batch') : batch'[i][PK(e)] # r[PK(e)]) =>
                        CopiesIn(r, db'[e]) = CopiesIn(r, db[e])
              /\ batch' = <<>> => (db' = db /\ work' = work)]_vars

\* C28: a run that opened the store connection has closed it when it ends,
\* whichever entity's fetch or persist failed.
C28_ConnectionClosedAtEnd == (pc \in Terminal /\ conn # "none") => conn = "closed"

\* a login call that returned a session id
Succeeded(o) == ~o.call_raised /\ o.result \notin {None, ""}

\* C29: after any sequence of login calls on one client, the session id and
\* the session cookie of the client are those of the first login that
\* succeeded (none when none did), and a call that succeeded returned the
\* id it received.
C29_FirstLoginSticks ==
    pc = "auth" =>
        LET ok == SelectSeq(logins, Succeeded)
        IN  /\ IF ok = <<>> THEN client_session = None /\ cookie = None
               ELSE client_session = ok[1].result /\ cookie = ok[1].result
            /\ (logins # <<>> /\ Succeeded(logins[Len(logins)])) => session_id = logins[Len(logins)].result

\* a failed login, then two logins that received different ids: the client
\* has the first id, the last call returned the second
C29_Witness ==
    /\ pc = "auth"
    /\ Len(logins) = 3
    /\ ~Succeeded(logins[1])
    /\ logins[2].result = "S1"
    /\ logins[3].result = "S2"
    /\ client_session = "S1"
    /\ cookie = "S1"
    /\ session_id = "S2"

\* C30: in every extracted invoice record datePaid is null exactly when the
\* Paid of its raw item is absent, empty or blank, whatever IsCredited is;
\* an Unpaid record has no datePaid, a Paid record has one, and amountPaid
\* plus balance is totalIncVat in every record that is not Credited.
C30_DatePaidFollowsPaid ==
    (pc = "extracted" /\ ent = "invoices") =>
        LET kept == SelectSeq(resp, HasInvoiceKey)
        IN  /\ Len(batch) = Len(kept)
            /\ \A n \in 1..Len(batch) :
                 LET r == batch[n]
                 IN  /\ (r.datePaid = None) <=> ~IsDateText(kept[n].Paid)
                     /\ r.datePaid # None => r.datePaid = kept[n].Paid
                     /\ r.status = "Unpaid" => r.datePaid = None
                     /\ r.status = "Paid" => r.datePaid # None
                     /\ r.status # "Credited" => r.amountPaid + r.balance = r.totalIncVat

\* an invoice whose Paid is blank: Unpaid without datePaid, the total as balance
C30_Witness ==
    /\ pc = "extracted"
    /\ ent = "invoices"
    /\ \E n \in 1..Len(resp) :
         /\ resp[n].Paid = " "
         /\ resp[n].OrderTotalIncVat = "7"
         /\ resp[n].InvoiceId = "1"
         /\ \E m \in 1..Len(batch) :
              /\ batch[m].invoiceId = 1
              /\ batch[m].status = "Unpaid"
              /\ batch[m].datePaid = None
              /\ batch[m].balance = 7

====
